---- MODULE Spec2Model ----
(***************************************************************************)
(* Chroma-key pipeline of webgl-chroma-key: the per-pixel keyer            *)
(* (rgb2hsv, chromaKey, suppressSpill, output selection), the phase-5      *)
(* single-pass shader with in-shader choke/soften, and the phase-7         *)
(* four-pass WebGPU pipeline (chromakey, choke, soften, output).           *)
(*                                                                         *)
(* Every f32 of the shaders is a fixed-point integer in thousandths:       *)
(* the float x is the integer x * ONE, products and quotients are floored  *)
(* to a thousandth.  NaN is a separate value.  Render targets hold 8-bit   *)
(* unorm channels (0..255), as rgba8unorm textures and the canvas do.      *)
(***************************************************************************)
EXTENDS Integers, Sequences, FiniteSets, TLC

VARIABLES
    page,                  \* the mounted route: "phase5", "phase6", "phase7"
    ui,                    \* the page's $state parameters (sliders, key colour, mode)
    nanClamp,              \* what clamp(NaN, 0.0, 1.0) yields on this GPU
    video,                 \* the current video frame: position -> rgb
    canvas,                \* the presented frame: position -> rgba8
    frag,                  \* locals of the last fragment-shader run per pixel
    videoTexture,          \* phase 7: copy target of the video frame
    intermediateTexture1,  \* phase 7: ping-pong texture 1
    intermediateTexture2,  \* phase 7: ping-pong texture 2
    uniforms,              \* the uniform values the shaders read (phase 7: the four buffers)
    queue,                 \* phase 7: commands submitted to the GPU queue, in order
    encoded,               \* phase 7: the passes of the last command buffer
    lifecycle,             \* the component: "created", "mounted", "destroyed"
    keyColorHex,           \* $state keyColorHex: <<r, g, b>> in bytes
    currentPreset,         \* $state currentPreset: "default", "aggressive", "custom"
    timers,                \* pending setTimeout callbacks of the mark-as-custom effect
    gl,                    \* phase 5: $state gl is set
    webgpu,                \* phase 6/7: where initWebGPU() is
    canvasBound,           \* bind:this of the canvas and video elements holds the elements
    player,                \* the video element: loaded, paused, currentTime
    rafPending,            \* a requestAnimationFrame(render) callback is scheduled
    lastRenderedTime,      \* phase 5: video time of the last draw, -1 before the first
    shouldRender,          \* phase 5: a redraw is requested
    videoSrc,              \* $state videoSrc: 0 for "", else the object URL it holds
    objectUrls             \* object URLs created and not revoked

\* the component state outside the shaders' parameters
pageVars == <<lifecycle, keyColorHex, currentPreset, timers, gl, webgpu, canvasBound,
              player, rafPending, lastRenderedTime, shouldRender, videoSrc, objectUrls>>

\* the GPU resources of phase 7
gpuVars == <<videoTexture, intermediateTexture1, intermediateTexture2, queue, encoded>>

vars == <<page, ui, nanClamp, video, canvas, frag, videoTexture,
          intermediateTexture1, intermediateTexture2, uniforms, queue, encoded, pageVars>>

----------------------------------------------------------------------------
(* Fixed-point arithmetic                                                  *)

ONE == 1000

NaN == 0 - (ONE * ONE)

Abs(x) == LET v == x IN IF v < 0 THEN 0 - v ELSE v

Min2(a, b) == LET u == a v == b IN IF u <= v THEN u ELSE v

Max2(a, b) == LET u == a v == b IN IF u >= v THEN u ELSE v

sign(x) == IF x > 0 THEN ONE ELSE IF x < 0 THEN 0 - ONE ELSE 0

FMul(a, b) == (a * b) \div ONE

FDiv(a, b) == (a * ONE) \div b

clamp(x, lo, hi) == LET v == x IN IF v = NaN THEN nanClamp ELSE Min2(Max2(v, lo), hi)

fract(x) == x % ONE

\* mutant: the interpolation runs twice as far
mixExtrapolated(a, b, t) == a + FMul(b - a, 2 * t)

mix(a, b, t) == a + FMul(b - a, t)

\* largest r in lo..hi with r^n <= x
RECURSIVE RootSearch(_, _, _, _)
RootSearch(x, n, lo, hi) ==
    IF lo >= hi THEN lo
    ELSE LET mid == (lo + hi + 1) \div 2
             p   == IF n = 2 THEN mid * mid ELSE mid * mid * mid
         IN  IF p <= x THEN RootSearch(x, n, mid, hi)
                       ELSE RootSearch(x, n, lo, mid - 1)

\* one step of the binary square root: bit b joins the root r if (r + b)^2 <= x
sqrtBit(x, r, b) == IF (r + b) * (r + b) <= x THEN r + b ELSE r

\* length of a vector whose squared components sum to sq (thousandths squared):
\* the largest r < 8.192 with r^2 <= sq
FSqrt(sq) ==
    LET x   == sq
        r12 == sqrtBit(x, 0, 4096)
        r11 == sqrtBit(x, r12, 2048)
        r10 == sqrtBit(x, r11, 1024)
        r9  == sqrtBit(x, r10, 512)
        r8  == sqrtBit(x, r9, 256)
        r7  == sqrtBit(x, r8, 128)
        r6  == sqrtBit(x, r7, 64)
        r5  == sqrtBit(x, r6, 32)
        r4  == sqrtBit(x, r5, 16)
        r3  == sqrtBit(x, r4, 8)
        r2  == sqrtBit(x, r3, 4)
        r1  == sqrtBit(x, r2, 2)
        r0  == sqrtBit(x, r1, 1)
    IN  r0

length2(x, y) == FSqrt(x * x + y * y)

length3(v) == FSqrt(v.x * v.x + v.y * v.y + v.z * v.z)

\* pow(t, n) and pow(t, 1/n) for t in [0,1] and n in {2, 3}; pow(NaN, _) is NaN
powInt(t, n) ==
    IF t = NaN THEN NaN
    ELSE IF n = 1 THEN t
    ELSE IF n = 2 THEN FMul(t, t)
    ELSE FMul(FMul(t, t), t)

powRoot(t, n) ==
    IF t = NaN THEN NaN
    ELSE IF n = 1 THEN t
    ELSE IF n = 2 THEN RootSearch(t * ONE, 2, 0, ONE)
    ELSE RootSearch(t * ONE * ONE, 3, 0, ONE)

smoothstep(edge0, edge1, x) ==
    LET num == IF edge1 >= edge0 THEN x - edge0 ELSE edge0 - x
        den == IF edge1 >= edge0 THEN edge1 - edge0 ELSE edge0 - edge1
        t   == Min2(Max2(FDiv(num, den), 0), ONE)
    IN  FMul(FMul(t, t), 3 * ONE - 2 * t)

RGB(r, g, b) == [r |-> r, g |-> g, b |-> b]

luma(c) == (299 * c.r + 587 * c.g + 114 * c.b) \div ONE

----------------------------------------------------------------------------
(* Colour-space conversion                                                 *)

\* mutant: the hue is not wrapped into one turn
rgb2hsvNoFract(rgb) ==
    LET Cmax  == Max2(rgb.r, Max2(rgb.g, rgb.b))
        Cmin  == Min2(rgb.r, Min2(rgb.g, rgb.b))
        delta == Cmax - Cmin
        hx    == IF rgb.r = Cmax THEN FDiv(rgb.g - rgb.b, delta)
                 ELSE IF rgb.g = Cmax THEN 2 * ONE + FDiv(rgb.b - rgb.r, delta)
                 ELSE 4 * ONE + FDiv(rgb.r - rgb.g, delta)
    IN  IF Cmax > Cmin
        THEN [x |-> hx \div 6, y |-> FDiv(delta, Cmax), z |-> Cmax]
        ELSE [x |-> 0, y |-> 0, z |-> Cmax]

rgb2hsv(rgb) ==
    LET Cmax  == Max2(rgb.r, Max2(rgb.g, rgb.b))
        Cmin  == Min2(rgb.r, Min2(rgb.g, rgb.b))
        delta == Cmax - Cmin
        hx    == IF rgb.r = Cmax THEN FDiv(rgb.g - rgb.b, delta)
                 ELSE IF rgb.g = Cmax THEN 2 * ONE + FDiv(rgb.b - rgb.r, delta)
                 ELSE 4 * ONE + FDiv(rgb.r - rgb.g, delta)
    IN  IF Cmax > Cmin
        THEN [x |-> fract(hx \div 6), y |-> FDiv(delta, Cmax), z |-> Cmax]
        ELSE [x |-> 0, y |-> 0, z |-> Cmax]

\* the divisors rgb2hsv uses for rgb: delta and Cmax, only when Cmax > Cmin
hsvDivisors(rgb) ==
    IF Max2(rgb.r, Max2(rgb.g, rgb.b)) > Min2(rgb.r, Min2(rgb.g, rgb.b))
    THEN {Max2(rgb.r, Max2(rgb.g, rgb.b)) - Min2(rgb.r, Min2(rgb.g, rgb.b)),
          Max2(rgb.r, Max2(rgb.g, rgb.b))}
    ELSE {}

\* mutant: the second sextant is built like the first
hsvSectorSwapped(h, c, x, m) ==
    IF h < ONE THEN RGB(c + m, x + m, m)
    ELSE IF h < 2 * ONE THEN RGB(c + m, x + m, m)
    ELSE IF h < 3 * ONE THEN RGB(m, c + m, x + m)
    ELSE IF h < 4 * ONE THEN RGB(m, x + m, c + m)
    ELSE IF h < 5 * ONE THEN RGB(x + m, m, c + m)
    ELSE RGB(c + m, m, x + m)

\* the sextant of hue h in sixths of a turn: chroma c, second component x, plus m
hsvSector(h, c, x, m) ==
    IF h < ONE THEN RGB(c + m, x + m, m)
    ELSE IF h < 2 * ONE THEN RGB(x + m, c + m, m)
    ELSE IF h < 3 * ONE THEN RGB(m, c + m, x + m)
    ELSE IF h < 4 * ONE THEN RGB(m, x + m, c + m)
    ELSE IF h < 5 * ONE THEN RGB(x + m, m, c + m)
    ELSE RGB(c + m, m, x + m)

\* x = c * (1 - abs(mod(h, 2) - 1))
hsvSecond(h, c) == FMul(c, ONE - Abs((h % (2 * ONE)) - ONE))

hsvChroma(hsv) == FMul(hsv.z, hsv.y)

hsv2rgb(hsv) ==
    hsvSector(6 * hsv.x, hsvChroma(hsv), hsvSecond(6 * hsv.x, hsvChroma(hsv)),
              hsv.z - hsvChroma(hsv))

----------------------------------------------------------------------------
(* Matte generator and contrast cleanup (chromaKey)                        *)

\* mutant: no wraparound
wrapHueNone(dx) == dx

\* the hue component of diff after the wraparound step
wrapHue(dx) == IF Abs(dx) > 500 THEN dx - sign(dx) ELSE dx

\* diff = target - hsv, hue wrapped
hsvDiff(target, hsv) ==
    [x |-> wrapHue(target.x - hsv.x), y |-> target.y - hsv.y, z |-> target.z - hsv.z]

keyDiff(color, keyColor) == hsvDiff(rgb2hsv(keyColor), rgb2hsv(color))

\* weights * diff, weights = vec3(4, 1, 2) * tolFactor
weighted(diff, tolFactor) ==
    [x |-> FMul(4 * tolFactor, diff.x),
     y |-> FMul(tolFactor, diff.y),
     z |-> FMul(2 * tolFactor, diff.z)]

\* dist = length(weights * diff)
keyDist(color, u) ==
    length3(weighted(keyDiff(color, u.keyColor), ONE + FMul(u.tolerance - 50 * ONE, 20)))

slopeOf(u) == 3 * ONE + FMul(u.transparency - 50 * ONE, 60)

\* mutant: the offset is added instead of subtracted
offsetOfFlipped(u) == FMul(u.transparency - 50 * ONE, 30) - 1500

offsetOf(u) == 1500 - FMul(u.transparency - 50 * ONE, 30)

\* mutant: the ramp is inverted (offset - slope * dist)
matteAlphaInverted(dist, luminance, u) ==
    LET base            == clamp(offsetOf(u) - FMul(slopeOf(u), dist), 0, ONE)
        highlightFactor == FMul(u.highlight - 50 * ONE, 20)
        highlightMask   == smoothstep(500, ONE, luminance)
        shadowFactor    == FMul(u.shadow - 50 * ONE, 20)
        shadowMask      == smoothstep(500, 0, luminance)
        pedestalShift   == FMul(u.pedestal, 10)
    IN  clamp(base - FMul(highlightMask, highlightFactor)
                   + FMul(shadowMask, shadowFactor) + pedestalShift, 0, ONE)

\* alpha of the matte generator from dist and luminance, up to the first clamp
matteAlpha(dist, luminance, u) ==
    LET base            == clamp(FMul(slopeOf(u), dist) - offsetOf(u), 0, ONE)
        highlightFactor == FMul(u.highlight - 50 * ONE, 20)
        highlightMask   == smoothstep(500, ONE, luminance)
        shadowFactor    == FMul(u.shadow - 50 * ONE, 20)
        shadowMask      == smoothstep(500, 0, luminance)
        pedestalShift   == FMul(u.pedestal, 10)
    IN  clamp(base - FMul(highlightMask, highlightFactor)
                   + FMul(shadowMask, shadowFactor) + pedestalShift, 0, ONE)

\* the divisor of t in the contrast stage: pivot below the pivot, 1 - pivot
\* at and above it
contrastDivisor(alpha, u) ==
    IF alpha < FMul(u.midPoint, 10) THEN FMul(u.midPoint, 10) ELSE ONE - FMul(u.midPoint, 10)

\* mutant: the upper branch lacks the pivot offset
contrastCurveNoOffset(alpha, u) ==
    IF u.contrast > ONE
    THEN LET pivot == FMul(u.midPoint, 10)
             n     == (ONE + FMul(u.contrast, 10)) \div ONE
         IN  IF alpha < pivot
             THEN FMul(pivot, powInt(FDiv(alpha, pivot), n))
             ELSE IF pivot = ONE
                  THEN NaN
                  ELSE FMul(ONE - pivot,
                            powRoot(FDiv(alpha - pivot, ONE - pivot), n))
    ELSE alpha

\* the contrast / mid point S-curve, before the final clamp
contrastCurve(alpha, u) ==
    IF u.contrast > ONE
    THEN LET pivot == FMul(u.midPoint, 10)
             n     == (ONE + FMul(u.contrast, 10)) \div ONE
         IN  IF alpha < pivot
             THEN FMul(pivot, powInt(FDiv(alpha, pivot), n))
             ELSE IF pivot = ONE
                  THEN NaN     \* t = 0/0, pow(NaN, e) and 0 * NaN are NaN
                  ELSE pivot + FMul(ONE - pivot,
                                    powRoot(FDiv(alpha - pivot, ONE - pivot), n))
    ELSE alpha

chromaKey(color, luminance, u) ==
    clamp(contrastCurve(matteAlpha(keyDist(color, u), luminance, u), u), 0, ONE)

----------------------------------------------------------------------------
(* Spill suppression and output selection                                  *)

\* float comparisons: every comparison with NaN is false
Lt(a, b) == a # NaN /\ b # NaN /\ a < b

Gt(a, b) == a # NaN /\ b # NaN /\ a > b

\* mutant: only a green-family key has its channel reduced
desaturateGreenOnly(color, l, keyHue, suppressionStrength) ==
    LET g1 == IF keyHue > 200 /\ keyHue < 500
              THEN mix(color.g, l, suppressionStrength) ELSE color.g
    IN  RGB(mix(color.r, l, FMul(suppressionStrength, 400)),
            mix(g1, l, FMul(suppressionStrength, 400)),
            mix(color.b, l, FMul(suppressionStrength, 400)))

\* the desaturation of suppressSpill: the key's channel towards luma l, then
\* every channel towards l by 0.4 * suppressionStrength
desaturate(color, l, keyHue, suppressionStrength) ==
    LET g1 == IF keyHue > 200 /\ keyHue < 500
              THEN mix(color.g, l, suppressionStrength) ELSE color.g
        b1 == IF ~(keyHue > 200 /\ keyHue < 500) /\ keyHue > 450 /\ keyHue < 750
              THEN mix(color.b, l, suppressionStrength) ELSE color.b
    IN  RGB(mix(color.r, l, FMul(suppressionStrength, 400)),
            mix(g1, l, FMul(suppressionStrength, 400)),
            mix(b1, l, FMul(suppressionStrength, 400)))

\* mutant: the alpha gate is missing
suppressSpillUngated(color, alpha, u) ==
    IF u.spillSuppression < ONE
    THEN color
    ELSE desaturate(color, luma(color), rgb2hsv(u.keyColor).x, FMul(u.spillSuppression, 10))

suppressSpill(color, alpha, u) ==
    IF Lt(alpha, 50) \/ u.spillSuppression < ONE
    THEN color
    ELSE desaturate(color, luma(color), rgb2hsv(u.keyColor).x, FMul(u.spillSuppression, 10))

White  == RGB(ONE, ONE, ONE)
Black  == RGB(0, 0, 0)
Blue   == RGB(300, 500, ONE)
Yellow == RGB(ONE, ONE, 0)
Red    == RGB(ONE, 0, 0)

\* mutant: the bands are half-open the other way (>= and first match of <)
statusColorHalfOpen(alpha) ==
    IF Lt(alpha, 50) THEN Black
    ELSE IF Lt(alpha, 400) THEN Red
    ELSE IF Lt(alpha, 700) THEN Yellow
    ELSE IF Lt(alpha, 950) THEN Blue
    ELSE White

\* Status mode: the colour-coded quality band of alpha
statusColor(alpha) ==
    IF Gt(alpha, 950) THEN White
    ELSE IF Lt(alpha, 50) THEN Black
    ELSE IF Gt(alpha, 700) THEN Blue
    ELSE IF Gt(alpha, 400) THEN Yellow
    ELSE Red

RGBA(c, a) == [r |-> c.r, g |-> c.g, b |-> c.b, a |-> a]

\* the vec4 a fragment shader returns for (color, alpha) under outputMode
selectOutput(color, alpha, outputMode) ==
    IF outputMode = 0 THEN RGBA(color, alpha)
    ELSE IF outputMode = 1 THEN RGBA(RGB(alpha, alpha, alpha), ONE)
    ELSE IF outputMode = 2 THEN RGBA(statusColor(alpha), ONE)
    ELSE RGBA(color, alpha)

----------------------------------------------------------------------------
(* Frames, textures and 8-bit render targets                               *)

Pos(w, h) == (1 .. w) \X (1 .. h)

\* float -> unorm8 on a render-target store (NaN stores 0), and back on a sample
toUnorm8(x) == IF x = NaN THEN 0 ELSE (Min2(Max2(x, 0), ONE) * 255 + 500) \div ONE

fromUnorm8(k) == (k * ONE + 127) \div 255

store(v) == [r |-> toUnorm8(v.r), g |-> toUnorm8(v.g), b |-> toUnorm8(v.b), a |-> toUnorm8(v.a)]

load(t) == [r |-> fromUnorm8(t.r), g |-> fromUnorm8(t.g), b |-> fromUnorm8(t.b), a |-> fromUnorm8(t.a)]

\* clamp-to-edge addressing of the texel at p + (dx, dy)
texel(w, h, p, dx, dy) ==
    <<Min2(Max2(p[1] + dx, 1), w), Min2(Max2(p[2] + dy, 1), h)>>

NoFrame == [w |-> 0, h |-> 0, px |-> <<>>]

Frame(w, h, f) == [w |-> w, h |-> h, px |-> f]

----------------------------------------------------------------------------
(* What render() checks before it draws                                    *)

\* mutant: render() of phase 5 draws on every animation frame
needsRenderAlways == TRUE

\* phase 5: the video plays, its time differs from the time last drawn, or a
\* redraw is requested
needsRender ==
    ~player.paused \/ player.currentTime # lastRenderedTime \/ shouldRender

\* phase 6 and 7: the video has frame data and plays or is past its start
canRender ==
    player.loaded /\ video.w > 0 /\ (~player.paused \/ player.currentTime > 0)

----------------------------------------------------------------------------
(* Phase 6: single-pass WebGPU shader (no choke / soften)                  *)

\* what a fragment computes: the hue difference to the key, the alpha of
\* chromaKey, the final alpha, the spill-suppressed colour and the output vec4
fragOut(videoColor, keyed, alpha, color, u) ==
    [hueDiff |-> keyDiff(videoColor, u.keyColor).x,
     keyed |-> keyed, alpha |-> alpha, color |-> color,
     out |-> selectOutput(color, alpha, u.outputMode)]

\* spill suppression and output selection for a pixel of final alpha
shade(videoColor, keyed, alpha, u) ==
    fragOut(videoColor, keyed, alpha, suppressSpill(videoColor, alpha, u), u)

keyed6(videoColor, alpha, u) == shade(videoColor, alpha, alpha, u)

fs6(videoColor, u) == keyed6(videoColor, chromaKey(videoColor, luma(videoColor), u), u)

\* render() on an animation frame: once the device, the pipeline and the video
\* element are there and the video can be rendered, write the uniforms, draw
\* the frame and request the next frame
Draw6 ==
    /\ page = "phase6"
    /\ rafPending /\ webgpu = "ready" /\ canvasBound
    /\ canRender
    /\ uniforms' = ui
    /\ frag' = [p \in Pos(video.w, video.h) |-> fs6(video.px[p], ui)]
    /\ canvas' = Frame(video.w, video.h,
                       [p \in Pos(video.w, video.h) |-> store(frag'[p].out)])
    /\ UNCHANGED <<page, ui, nanClamp, video, gpuVars, pageVars>>

----------------------------------------------------------------------------
(* Neighbourhood sampling                                                  *)

Offsets(n) == (0 - n .. n) \X (0 - n .. n)

\* dist = length(vec2(float(x), float(y))) of every kernel offset
offsetDist == [o \in Offsets(4) |-> length2(o[1] * ONE, o[2] * ONE)]

\* mutant: the centre of the kernel is skipped
InRadiusNoCentre(n, radius) ==
    {o \in Offsets(n) : offsetDist[o] > 0 /\ offsetDist[o] <= radius}

\* the offsets of the (2n+1) x (2n+1) kernel that pass "dist <= radius"
InRadius(n, radius) == {o \in Offsets(n) : offsetDist[o] <= radius}

\* min / max as the shaders fold them: a NaN sample never replaces result
RECURSIVE foldMin(_, _)
foldMin(result, S) ==
    IF S = {} THEN result
    ELSE LET a == CHOOSE a \in S : TRUE
         IN  foldMin(IF Lt(a, result) THEN a ELSE result, S \ {a})

RECURSIVE foldMax(_, _)
foldMax(result, S) ==
    IF S = {} THEN result
    ELSE LET a == CHOOSE a \in S : TRUE
         IN  foldMax(IF Gt(a, result) THEN a ELSE result, S \ {a})

RECURSIVE sumOver(_, _)
sumOver(f, S) ==
    IF S = {} THEN 0
    ELSE LET o == CHOOSE o \in S : TRUE
         IN  f[o] + sumOver(f, S \ {o})

\* w = 1.0 / (1.0 + dist) of the sample at offset o
falloff(o) == FDiv(ONE, ONE + offsetDist[o])

\* the weighted mean of matte values a[o] over the offsets S
weightedSum(a, S) == sumOver([o \in S |-> FMul(a[o], falloff(o))], S)

weightSum(S) == sumOver([o \in S |-> falloff(o)], S)

----------------------------------------------------------------------------
(* Phase 5: single-pass WebGL shader with in-shader choke and soften       *)

\* chromaKey of the video texel at p + o
sampleAlpha5(v, p, o, u) ==
    LET sampleColor == v.px[texel(v.w, v.h, p, o[1], o[2])]
    IN  chromaKey(sampleColor, luma(sampleColor), u)

applyChoke5(v, p, alpha, u) ==
    IF Abs(u.choke) < 100 THEN alpha
    ELSE LET S == {sampleAlpha5(v, p, o, u) : o \in InRadius(3, FMul(Abs(u.choke), 150))}
         IN  IF u.choke > 0 THEN foldMin(ONE, S) ELSE foldMax(0, S)

applySoften5(v, p, alpha, u) ==
    IF u.soften < 100 THEN alpha
    ELSE LET S == InRadius(4, FMul(u.soften, 200))
             a == [o \in S |-> sampleAlpha5(v, p, o, u)]
         IN  FDiv(weightedSum(a, S), weightSum(S))

\* main() after the matte generator: choke (if enabled), soften (if enabled)
softened5(v, p, alpha, u) ==
    IF u.soften > 100 THEN applySoften5(v, p, alpha, u) ELSE alpha

choked5(v, p, alpha, u) ==
    IF Abs(u.choke) > 100 THEN applyChoke5(v, p, alpha, u) ELSE alpha

keyed5(v, p, keyed, u) ==
    shade(v.px[p], keyed, softened5(v, p, choked5(v, p, keyed, u), u), u)

main5(v, p, u) == keyed5(v, p, chromaKey(v.px[p], luma(v.px[p]), u), u)

\* render() on an animation frame: with the context and a video that has frame
\* data, draw if the video plays, its time moved or a redraw is requested, note
\* the time drawn and clear the request; then request the next frame
Draw5 ==
    /\ page = "phase5"
    /\ rafPending /\ gl
    /\ player.loaded /\ video.w > 0
    /\ needsRender
    /\ uniforms' = ui
    /\ frag' = [p \in Pos(video.w, video.h) |-> main5(video, p, ui)]
    /\ canvas' = Frame(video.w, video.h,
                       [p \in Pos(video.w, video.h) |-> store(frag'[p].out)])
    /\ lastRenderedTime' = player.currentTime
    /\ shouldRender' = FALSE
    /\ UNCHANGED <<page, ui, nanClamp, video, gpuVars, lifecycle, keyColorHex,
                   currentPreset, timers, gl, webgpu, canvasBound, player, rafPending,
                   videoSrc, objectUrls>>

----------------------------------------------------------------------------
(* Phase 7: four render passes over rgba8unorm textures                    *)

\* the texel a fragment of target pixel p samples: the choke, soften and
\* output vertex shaders map the bottom of the target to v = 0 (the top texture
\* row), the chromakey vertex shader maps it to v = 1
flipY(p, h) == <<p[1], h + 1 - p[2]>>

sameY(p, h) == p

rgbOf(c) == RGB(c.r, c.g, c.b)

\* pass 1: chroma key and spill suppression, alpha kept in the alpha channel
keyed7(videoColor, alpha, u) == RGBA(suppressSpill(videoColor, alpha, u), alpha)

chromakey7(videoColor, u) ==
    keyed7(videoColor, chromaKey(videoColor, luma(videoColor), u), u)

fsChromakey(tex, p, u) == chromakey7(rgbOf(load(tex.px[sameY(p, tex.h)])), u.chromakey)

\* alpha of the texel at offset o from texel c
sampleAlpha7(tex, c, o) == load(tex.px[texel(tex.w, tex.h, c, o[1], o[2])]).a

\* pass 2: erosion / dilation of the alpha channel over the 5x5 neighbourhood
fsChoke(tex, p, u) ==
    LET c           == flipY(p, tex.h)
        centerColor == load(tex.px[c])
        choke       == u.choke.choke
        S           == {sampleAlpha7(tex, c, o) : o \in InRadius(2, FMul(Abs(choke), 150))}
    IN  IF Abs(choke) < 100 THEN centerColor
        ELSE RGBA(rgbOf(centerColor),
                  IF choke > 0 THEN foldMin(ONE, S) ELSE foldMax(0, S))

\* mutant: the soften pass samples the row it writes
fsSoftenUnflipped(tex, p, u) ==
    LET c           == sameY(p, tex.h)
        centerColor == load(tex.px[c])
        S           == InRadius(2, FMul(u.soften.soften, 200))
        a           == [o \in S |-> sampleAlpha7(tex, c, o)]
    IN  IF u.soften.soften < 100 THEN centerColor
        ELSE RGBA(rgbOf(centerColor), FDiv(weightedSum(a, S), Max2(weightSum(S), 1)))

\* pass 3: distance-weighted blur of the alpha channel over the 5x5 neighbourhood
fsSoften(tex, p, u) ==
    LET c           == flipY(p, tex.h)
        centerColor == load(tex.px[c])
        S           == InRadius(2, FMul(u.soften.soften, 200))
        a           == [o \in S |-> sampleAlpha7(tex, c, o)]
    IN  IF u.soften.soften < 100 THEN centerColor
        ELSE RGBA(rgbOf(centerColor), FDiv(weightedSum(a, S), Max2(weightSum(S), 1)))

\* pass 4: output mode selection, rendered to the canvas
fsOutput(tex, p, u) ==
    LET color == load(tex.px[flipY(p, tex.h)])
    IN  selectOutput(rgbOf(color), color.a, u.output.outputMode)

fragment(pipeline, tex, p, u) ==
    IF pipeline = "chromakey" THEN fsChromakey(tex, p, u)
    ELSE IF pipeline = "choke" THEN fsChoke(tex, p, u)
    ELSE IF pipeline = "soften" THEN fsSoften(tex, p, u)
    ELSE fsOutput(tex, p, u)

\* one full-screen draw of pipeline over tex
runPass(pipeline, tex, u) ==
    Frame(tex.w, tex.h, [p \in Pos(tex.w, tex.h) |-> store(fragment(pipeline, tex, p, u))])

Pass(pipeline, src, dst) == [op |-> "pass", pipeline |-> pipeline, src |-> src, dst |-> dst]

\* mutant: the soften pass blurs intermediateTexture1 in place
CommandBufferInPlace ==
    <<Pass("chromakey", "videoTexture", "intermediateTexture1"),
      Pass("choke", "intermediateTexture1", "intermediateTexture2"),
      Pass("soften", "intermediateTexture1", "intermediateTexture1"),
      Pass("output", "intermediateTexture1", "screen")>>

\* the command buffer render() encodes: each pass with the texture it binds
\* and its colour attachment
CommandBuffer ==
    <<Pass("chromakey", "videoTexture", "intermediateTexture1"),
      Pass("choke", "intermediateTexture1", "intermediateTexture2"),
      Pass("soften", "intermediateTexture2", "intermediateTexture1"),
      Pass("output", "intermediateTexture1", "screen")>>

\* the contents updateUniforms() writes to the four uniform buffers
uniformData(w, h, u) ==
    [chromakey |-> u,
     choke  |-> [resolution |-> <<w, h>>, choke |-> u.choke],
     soften |-> [resolution |-> <<w, h>>, soften |-> u.soften],
     output |-> [outputMode |-> u.outputMode]]

ZeroTexture(w, h) == Frame(w, h, [p \in Pos(w, h) |-> [r |-> 0, g |-> 0, b |-> 0, a |-> 0]])

\* copyExternalImageToTexture with flipY: the frame as 8-bit texels, rows reversed
copiedFrame(v) ==
    Frame(v.w, v.h, [p \in Pos(v.w, v.h) |-> store(RGBA(v.px[flipY(p, v.h)], ONE))])

Texture(name) ==
    IF name = "videoTexture" THEN videoTexture
    ELSE IF name = "intermediateTexture1" THEN intermediateTexture1
    ELSE IF name = "intermediateTexture2" THEN intermediateTexture2
    ELSE canvas

\* render() on an animation frame: once the device, the pipelines and the video
\* element are there and the video can be rendered, create the textures if the
\* size changed, then queue the frame copy, the uniform writes and the command
\* buffer, and request the next frame.  A frame is rendered once the GPU has
\* drained the previous one.
Render7 ==
    /\ page = "phase7"
    /\ rafPending /\ webgpu = "ready" /\ canvasBound
    /\ canRender
    /\ queue = <<>>
    /\ LET fresh == videoTexture.w # video.w \/ videoTexture.h # video.h
       IN  /\ queue' = <<[op |-> "copy", frame |-> video],
                         [op |-> "write", data |-> uniformData(video.w, video.h, ui)]>>
                       \o CommandBuffer
           /\ encoded' = CommandBuffer
           /\ IF fresh
              THEN /\ videoTexture' = ZeroTexture(video.w, video.h)
                   /\ intermediateTexture1' = ZeroTexture(video.w, video.h)
                   /\ intermediateTexture2' = ZeroTexture(video.w, video.h)
                   /\ canvas' = ZeroTexture(video.w, video.h)
              ELSE UNCHANGED <<videoTexture, intermediateTexture1,
                               intermediateTexture2, canvas>>
    /\ UNCHANGED <<page, ui, nanClamp, video, frag, uniforms, pageVars>>

\* the GPU executes the next queued command
GpuCopy ==
    /\ queue # <<>> /\ Head(queue).op = "copy"
    /\ videoTexture' = copiedFrame(Head(queue).frame)
    /\ queue' = Tail(queue)
    /\ UNCHANGED <<page, ui, nanClamp, video, canvas, frag, intermediateTexture1,
                   intermediateTexture2, uniforms, encoded, pageVars>>

GpuWriteBuffer ==
    /\ queue # <<>> /\ Head(queue).op = "write"
    /\ uniforms' = Head(queue).data
    /\ queue' = Tail(queue)
    /\ UNCHANGED <<page, ui, nanClamp, video, canvas, frag, videoTexture,
                   intermediateTexture1, intermediateTexture2, encoded, pageVars>>

\* mutant: a pass reads the page's parameters when the GPU executes it
GpuPassLive ==
    /\ queue # <<>> /\ Head(queue).op = "pass"
    /\ LET cmd == Head(queue)
           out == runPass(cmd.pipeline, Texture(cmd.src), uniformData(video.w, video.h, ui))
       IN  /\ videoTexture' = IF cmd.dst = "videoTexture" THEN out ELSE videoTexture
           /\ intermediateTexture1' =
                  IF cmd.dst = "intermediateTexture1" THEN out ELSE intermediateTexture1
           /\ intermediateTexture2' =
                  IF cmd.dst = "intermediateTexture2" THEN out ELSE intermediateTexture2
           /\ canvas' = IF cmd.dst = "screen" THEN out ELSE canvas
    /\ queue' = Tail(queue)
    /\ UNCHANGED <<page, ui, nanClamp, video, frag, uniforms, encoded, pageVars>>

GpuPass ==
    /\ queue # <<>> /\ Head(queue).op = "pass"
    /\ LET cmd == Head(queue)
           out == runPass(cmd.pipeline, Texture(cmd.src), uniforms)
       IN  /\ videoTexture' = IF cmd.dst = "videoTexture" THEN out ELSE videoTexture
           /\ intermediateTexture1' =
                  IF cmd.dst = "intermediateTexture1" THEN out ELSE intermediateTexture1
           /\ intermediateTexture2' =
                  IF cmd.dst = "intermediateTexture2" THEN out ELSE intermediateTexture2
           /\ canvas' = IF cmd.dst = "screen" THEN out ELSE canvas
    /\ queue' = Tail(queue)
    /\ UNCHANGED <<page, ui, nanClamp, video, frag, uniforms, encoded, pageVars>>

----------------------------------------------------------------------------
(* Inputs of the per-pixel keyer                                           *)

StdGreen == RGB(157, 576, 129)

RedSubject == RGB(900, 100, 100)

\* an edge colour between the green screen and a subject
EdgeMix == RGB(400, 500, 300)

\* hue 0.02 and hue 0.98, either side of the hue origin
Hue02 == RGB(ONE, 120, 0)

Hue98 == RGB(ONE, 0, 120)

Levels == {0, 500, ONE}

Palette == {RGB(r, g, b) : r \in Levels, g \in Levels, b \in Levels}
               \cup {StdGreen, RedSubject, EdgeMix, Hue02, Hue98}

Defaults ==
    [keyColor |-> StdGreen, transparency |-> 50 * ONE, tolerance |-> 50 * ONE,
     highlight |-> 50 * ONE, shadow |-> 50 * ONE, pedestal |-> 0,
     spillSuppression |-> 0, contrast |-> 0, midPoint |-> 50 * ONE,
     choke |-> 0, soften |-> 0, outputMode |-> 0]

Slider3 == {0, 50 * ONE, 100 * ONE}

Slider5 == {0, 25 * ONE, 50 * ONE, 75 * ONE, 100 * ONE}

\* contrast values whose exponent 1 + contrast/100 is an integer, and the
\* largest value that still disables the stage
Contrasts == {0, ONE, 100 * ONE, 200 * ONE}

\* every key colour and pixel colour of the palette, sliders near neutral
ColourSweep ==
    {[Defaults EXCEPT !.keyColor = k, !.tolerance = tol, !.outputMode = m] :
        k \in Palette, tol \in Slider3, m \in {0, 1}}

\* every slider of the matte generator and the contrast curve, standard key
SliderSweep ==
    {[Defaults EXCEPT !.transparency = t, !.tolerance = tol, !.highlight = hl,
                      !.shadow = sh, !.pedestal = pd, !.contrast = c,
                      !.midPoint = mp] :
        t \in Slider5, tol \in Slider3, hl \in Slider3, sh \in Slider3,
        pd \in {0, 10 * ONE}, c \in Contrasts, mp \in Slider3}

\* Status mode over every whole-number pedestal: alpha = pedestal / 100 on the key colour
StatusSweep ==
    {[Defaults EXCEPT !.pedestal = pd * ONE, !.outputMode = 2] : pd \in 0 .. 100}

SweepPixels == {StdGreen, Red, RedSubject, EdgeMix, White, Black}

\* clamp(NaN, 0, 1): min(max(NaN, 0), 1) is 0, 1 or NaN depending on how the
\* GPU orders the comparisons
NanClampOutcomes == {0, ONE, NaN}

\* the key colour of the colour input at startup, "#28933d"
DefaultHex == <<40, 147, 61>>

\* a mounted page whose uploaded video has its data and is paused at a frame
\* past its start, before the first animation frame that draws it; in phase 5
\* the startup timer has fired
PageReady ==
    /\ lifecycle = "mounted"
    /\ keyColorHex = DefaultHex
    /\ currentPreset = IF page = "phase5" THEN "custom" ELSE "default"
    /\ timers = 0
    /\ gl = (page = "phase5")
    /\ webgpu = IF page = "phase5" THEN "idle" ELSE "ready"
    /\ canvasBound = TRUE
    /\ player = [loaded |-> TRUE, paused |-> TRUE, currentTime |-> 1]
    /\ rafPending = TRUE
    /\ lastRenderedTime = 0 - 1
    /\ shouldRender = TRUE
    /\ videoSrc = 1
    /\ objectUrls = {1}

Idle ==
    /\ canvas = NoFrame
    /\ frag = <<>>
    /\ videoTexture = NoFrame
    /\ intermediateTexture1 = NoFrame
    /\ intermediateTexture2 = NoFrame
    /\ uniforms = <<>>
    /\ queue = <<>>
    /\ encoded = <<>>
    /\ PageReady

OnePixel(c) == Frame(1, 1, [p \in Pos(1, 1) |-> c])

InitKey ==
    /\ page = "phase6"
    /\ nanClamp \in NanClampOutcomes
    /\ \/ ui \in ColourSweep /\ \E c \in Palette : video = OnePixel(c)
       \/ ui \in SliderSweep /\ \E c \in SweepPixels : video = OnePixel(c)
       \/ ui \in StatusSweep /\ video = OnePixel(StdGreen)
    /\ Idle

NextKey == Draw6

SpecKey == InitKey /\ [][NextKey]_vars

drawn == frag # <<>>

----------------------------------------------------------------------------
(* The pipelines over whole frames (Spec)                                  *)

Width == 4

Height == Width \div 2

Backgrounds == {StdGreen, RedSubject}

\* no pixel or one pixel of the frame differs from the background
SpotSets == {{}} \cup {{p} : p \in Pos(Width, Height)}

\* a green screen or a subject, uniform or with one pixel of another colour
Frames ==
    {Frame(Width, Height, [p \in Pos(Width, Height) |-> IF p \in T THEN spot ELSE bg]) :
        bg \in Backgrounds, spot \in {StdGreen, RedSubject, EdgeMix}, T \in SpotSets}

\* dilation and erosion over radius 3, erosion over radius 1.05, off
Chokes == {0 - 20 * ONE, 0, 7 * ONE, 20 * ONE}

Softens == {0, 5 * ONE}

PipelineSweep ==
    {[Defaults EXCEPT !.choke = ch, !.soften = so, !.spillSuppression = sp] :
        ch \in Chokes, so \in Softens, sp \in {0, 100 * ONE}}

Init ==
    /\ page \in {"phase5", "phase7"}
    /\ nanClamp \in NanClampOutcomes
    /\ ui \in PipelineSweep
    /\ video \in Frames
    /\ Idle

Next == Draw5 \/ Render7 \/ GpuCopy \/ GpuWriteBuffer \/ GpuPass

Spec == Init /\ [][Next]_vars


----------------------------------------------------------------------------
(* Claims about the per-pixel keyer (SpecKey)                              *)

Neutral(u) ==
    /\ u.transparency = 50 * ONE /\ u.tolerance = 50 * ONE
    /\ u.highlight = 50 * ONE /\ u.shadow = 50 * ONE
    /\ u.pedestal = 0 /\ u.contrast = 0

Pixels == DOMAIN frag

\* C1: with neutral parameters chromaKey returns alpha 0 for a pixel equal to
\* the key colour, whatever the key colour, and alpha 1 for pure red against
\* the standard green key.
C1_NeutralIdentity ==
    (drawn /\ Neutral(ui)) =>
        \A p \in Pixels :
            /\ video.px[p] = ui.keyColor => frag[p].keyed = 0
            /\ (ui.keyColor = StdGreen /\ video.px[p] = Red) => frag[p].keyed = ONE

C1_Witness ==
    /\ drawn /\ Neutral(ui) /\ ui.keyColor = StdGreen
    /\ \E p \in Pixels : video.px[p] = Red /\ frag[p].keyed = ONE

DistStep == 100

DistPoints == 30

DistGrid == {i * DistStep : i \in 0 .. DistPoints}

\* C2: for every transparency and fixed tolerance, highlight, shadow, pedestal
\* and luminance, the matte generator's alpha never decreases as the weighted
\* HSV distance grows.
C2_MonotoneInDist ==
    drawn =>
        \A p \in Pixels : \A d \in DistGrid :
            matteAlpha(d, luma(video.px[p]), ui)
                <= matteAlpha(d + DistStep, luma(video.px[p]), ui)

C2_Witness ==
    /\ drawn /\ ui.transparency = 0
    /\ \E p \in Pixels : \E d \in DistGrid :
           matteAlpha(d, luma(video.px[p]), ui) = matteAlpha(0, luma(video.px[p]), ui)
           /\ d > 0 /\ slopeOf(ui) = 0

\* C3: the hue component of diff has magnitude min(|hk-hp|, 1-|hk-hp|), so it
\* never exceeds 0.5; key hue 0.02 against pixel hue 0.98 differs by 0.04.
C3_HueWrap ==
    drawn =>
        \A p \in Pixels :
            LET hk == rgb2hsv(ui.keyColor).x
                hp == rgb2hsv(video.px[p]).x
                d  == Abs(frag[p].hueDiff)
            IN  /\ d = Min2(Abs(hk - hp), ONE - Abs(hk - hp))
                /\ d <= 500
                /\ (hk = 20 /\ hp = 980) => d = 40

C3_Witness ==
    /\ drawn
    /\ \E p \in Pixels :
           /\ rgb2hsv(ui.keyColor).x = 20 /\ rgb2hsv(video.px[p]).x = 980
           /\ Abs(frag[p].hueDiff) = 40

InUnit(a) == a # NaN /\ a >= 0 /\ a <= ONE

\* C4: after the matte generator and contrast cleanup every alpha lies in
\* [0,1], for all colours and all parameter values in range, midPoint 0 and
\* 100 with contrast > 1 included.
C4_AlphaInUnit ==
    drawn => \A p \in Pixels : InUnit(frag[p].keyed)

\* the band the claim gives: the first match of < 0.05, < 0.4, < 0.7, < 0.95
FirstBand(alpha) ==
    IF alpha < 50 THEN Black
    ELSE IF alpha < 400 THEN Red
    ELSE IF alpha < 700 THEN Yellow
    ELSE IF alpha < 950 THEN Blue
    ELSE White

\* the band with the upper boundaries closed
ClosedBand(alpha) ==
    IF alpha < 50 THEN Black
    ELSE IF alpha <= 400 THEN Red
    ELSE IF alpha <= 700 THEN Yellow
    ELSE IF alpha <= 950 THEN Blue
    ELSE White

StatusDrawn(p) == drawn /\ ui.outputMode = 2 /\ InUnit(frag[p].alpha)

\* C5 as claimed: Status mode colours alpha by the first matching band of
\* < 0.05 black, < 0.4 red, < 0.7 yellow, < 0.95 blue, else white.
C5_StatusFirstBand ==
    \A p \in Pixels :
        StatusDrawn(p) =>
            frag[p].out = RGBA(FirstBand(frag[p].alpha), ONE)

\* C5 amended: Status mode colours alpha black below 0.05, red on [0.05, 0.4],
\* yellow on (0.4, 0.7], blue on (0.7, 0.95] and white above 0.95.
C5_StatusClosedBand ==
    \A p \in Pixels :
        StatusDrawn(p) =>
            frag[p].out = RGBA(ClosedBand(frag[p].alpha), ONE)

C5_Witness ==
    \E p \in Pixels :
        StatusDrawn(p) /\ frag[p].alpha = 400 /\ frag[p].out = RGBA(Red, ONE)

----------------------------------------------------------------------------
(* Claims about the pipelines over whole frames (Spec)                     *)

\* the GPU has executed the choke pass of a frame and not yet its soften pass
afterChoke ==
    /\ page = "phase7" /\ queue # <<>>
    /\ Head(queue).op = "pass" /\ Head(queue).pipeline = "soften"

\* the GPU has executed every command of a submitted frame
frameDone == page = "phase7" /\ encoded # <<>> /\ queue = <<>>

drawn5 == page = "phase5" /\ drawn

\* C6: with choke = 0 and soften = 0 the choke and soften stages change
\* nothing: in phase 7 the choke pass copies every texel of the matte texture
\* (all four channels) and after the soften pass intermediateTexture1 holds
\* again what the chromakey pass wrote; in phase 5 the final alpha of every
\* pixel is the alpha of the matte generator / contrast stage and its colour
\* is the video colour after spill suppression with that alpha.
C6_NeutralMorphology ==
    /\ (afterChoke /\ uniforms.choke.choke = 0) =>
           \A p \in Pos(video.w, video.h) :
               intermediateTexture2.px[p] = intermediateTexture1.px[flipY(p, video.h)]
    /\ (frameDone /\ uniforms.choke.choke = 0 /\ uniforms.soften.soften = 0) =>
           intermediateTexture1 = runPass("chromakey", videoTexture, uniforms)
    /\ (drawn5 /\ ui.choke = 0 /\ ui.soften = 0) =>
           \A p \in Pixels :
               /\ frag[p].alpha = frag[p].keyed
               /\ frag[p].color = suppressSpill(video.px[p], frag[p].keyed, ui)

\* a finished phase-7 frame with choke = soften = 0 whose matte differs between
\* the two rows of a column
C6_Witness ==
    /\ frameDone /\ uniforms.choke.choke = 0 /\ uniforms.soften.soften = 0
    /\ \E p \in Pos(video.w, video.h) :
           intermediateTexture1.px[p].a # intermediateTexture1.px[flipY(p, video.h)].a

\* the pixels of a w x h frame whose offset from c has length <= radius
within(c, radius, w, h) ==
    {q \in Pos(w, h) : offsetDist[<<q[1] - c[1], q[2] - c[2]>>] <= radius}

setMin(S) == CHOOSE x \in S : \A y \in S : x <= y

setMax(S) == CHOOSE x \in S : \A y \in S : x >= y

extremum(choke, S) == IF choke > 0 THEN setMin(S) ELSE setMax(S)

\* C7: with |choke| >= 0.1 the choke stage gives every pixel the minimum
\* (choke > 0) or maximum (choke < 0) of the input alpha over all pixels of the
\* frame within |choke| * 0.15 of it: in phase 7 the alpha the choke pass
\* writes, in phase 5 (soften off) the final alpha.
C7_ChokeScansRadius ==
    /\ (afterChoke /\ Abs(uniforms.choke.choke) >= 100) =>
           \A p \in Pos(video.w, video.h) :
               intermediateTexture2.px[p].a =
                   extremum(uniforms.choke.choke,
                            {intermediateTexture1.px[q].a :
                                q \in within(flipY(p, video.h),
                                             FMul(Abs(uniforms.choke.choke), 150),
                                             video.w, video.h)})
    /\ (drawn5 /\ Abs(ui.choke) >= 100 /\ ui.soften < 100) =>
           \A p \in Pixels :
               frag[p].alpha =
                   extremum(ui.choke,
                            {frag[q].keyed :
                                q \in within(p, FMul(Abs(ui.choke), 150), video.w, video.h)})

\* the choked matte of phase 5: applyChoke at every pixel of the frame
chokedMatte5 ==
    [q \in Pos(video.w, video.h) |-> applyChoke5(video, q, frag[q].keyed, ui)]

\* C8: in phase 5 with |choke| > 0.1 and soften > 0.1 the final alpha of a
\* pixel is the distance-weighted blur (weights 1 / (1 + dist), radius
\* soften * 0.2) of the choked matte.
C8_SoftenAfterChoke ==
    (drawn5 /\ Abs(ui.choke) > 100 /\ ui.soften > 100) =>
        \A p \in Pixels :
            LET S == InRadius(4, FMul(ui.soften, 200))
                a == [o \in S |-> chokedMatte5[texel(video.w, video.h, p, o[1], o[2])]]
            IN  frag[p].alpha = FDiv(weightedSum(a, S), weightSum(S))

\* C9: the command buffer of a submitted frame holds the chromakey, choke,
\* soften and output passes in this order; the first reads the video texture,
\* each later pass reads the texture the pass before it writes, the last
\* writes the screen, no pass writes the texture it reads or the video
\* texture; and once the GPU has executed the frame, intermediateTexture2 is
\* the choke pass over the chromakey pass of the video texture,
\* intermediateTexture1 the soften pass over intermediateTexture2 and the
\* canvas the output pass over intermediateTexture1.
C9_PassChain ==
    /\ encoded # <<>> =>
           /\ [i \in 1 .. Len(encoded) |-> encoded[i].pipeline]
                  = <<"chromakey", "choke", "soften", "output">>
           /\ encoded[1].src = "videoTexture"
           /\ \A i \in 2 .. Len(encoded) : encoded[i].src = encoded[i - 1].dst
           /\ encoded[Len(encoded)].dst = "screen"
           /\ \A i \in 1 .. Len(encoded) :
                  encoded[i].dst # encoded[i].src /\ encoded[i].dst # "videoTexture"
    /\ frameDone =>
           LET matte == runPass("chromakey", videoTexture, uniforms)
           IN  /\ videoTexture = copiedFrame(video)
               /\ intermediateTexture2 = runPass("choke", matte, uniforms)
               /\ intermediateTexture1 = runPass("soften", intermediateTexture2, uniforms)
               /\ canvas = runPass("output", intermediateTexture1, uniforms)

\* a finished frame with choke and soften both on and a canvas that is not uniform
C9_Witness ==
    /\ frameDone
    /\ Abs(uniforms.choke.choke) >= 100 /\ uniforms.soften.soften >= 100
    /\ \E p, q \in Pos(video.w, video.h) : canvas.px[p] # canvas.px[q]

\* C10: in a finished phase-7 frame the colour of every pixel is the video
\* colour spill-suppressed under the gate of the pixel's final alpha: kept as
\* it is when the final alpha is < 0.05, suppressed when it is >= 0.05.
C10_SpillGatedByFinalAlpha ==
    frameDone =>
        \A p \in Pos(video.w, video.h) :
            LET videoColor == rgbOf(load(videoTexture.px[p]))
                final      == load(intermediateTexture1.px[p])
            IN  rgbOf(intermediateTexture1.px[p])
                    = rgbOf(store(RGBA(suppressSpill(videoColor, final.a, uniforms.chromakey),
                                       final.a)))

----------------------------------------------------------------------------
(* Spill suppression over every key hue (SpecSpill)                        *)

\* spillSuppression either side of the threshold 1.0, half and full strength
Spills == {0, 500, ONE, 50 * ONE, 100 * ONE}

\* pedestals that put the alpha of a key-coloured pixel either side of 0.05,
\* and the pedestal that makes every pixel opaque
Pedestals == {0, 4 * ONE, 5 * ONE, 100 * ONE}

SpillSweep ==
    {[Defaults EXCEPT !.keyColor = k, !.spillSuppression = sp, !.pedestal = pd] :
        k \in Palette, sp \in Spills, pd \in Pedestals}

InitSpill ==
    /\ page = "phase6"
    /\ nanClamp \in NanClampOutcomes
    /\ ui \in SpillSweep
    /\ \E c \in Palette : video = OnePixel(c)
    /\ Idle

SpecSpill == InitSpill /\ [][NextKey]_vars

\* C11: suppressSpill returns the colour it is given, in all three channels,
\* whenever alpha < 0.05 or spillSuppression < 1, for every colour and key.
C11_SpillNoOp ==
    drawn =>
        \A p \in Pixels :
            (Lt(frag[p].alpha, 50) \/ ui.spillSuppression < ONE) =>
                frag[p].color = video.px[p]

\* a pixel left alone under full suppression because its alpha is below 0.05,
\* whose colour the desaturation would have changed
C11_Witness ==
    /\ drawn /\ ui.spillSuppression = 100 * ONE
    /\ \E p \in Pixels :
           /\ Lt(frag[p].alpha, 50) /\ frag[p].color = video.px[p]
           /\ suppressSpill(video.px[p], ONE, ui) # video.px[p]

keyHue == rgb2hsv(ui.keyColor).x

\* C12: with spillSuppression = 100 and alpha = 1 the output green channel is
\* the pixel's luma when the key hue lies in (0.2, 0.5), and the output blue
\* channel is the pixel's luma when the key hue lies in [0.5, 0.75).
C12_KeyChannelToLuma ==
    (drawn /\ ui.spillSuppression = 100 * ONE) =>
        \A p \in Pixels :
            frag[p].alpha = ONE =>
                /\ (keyHue > 200 /\ keyHue < 500) => frag[p].color.g = luma(video.px[p])
                /\ (keyHue >= 500 /\ keyHue < 750) => frag[p].color.b = luma(video.px[p])

\* an opaque pixel under a key of hue exactly 0.5 whose blue channel moved to its luma
C12_Witness ==
    /\ drawn /\ ui.spillSuppression = 100 * ONE /\ keyHue = 500
    /\ \E p \in Pixels :
           /\ frag[p].alpha = ONE
           /\ video.px[p].b # luma(video.px[p])
           /\ frag[p].color.b = luma(video.px[p])

\* C13: every channel of the colour suppressSpill returns lies in [0,1], for
\* every colour, key colour and spillSuppression in [0,100].
C13_SpillInUnit ==
    drawn =>
        \A p \in Pixels :
            /\ frag[p].color.r >= 0 /\ frag[p].color.r <= ONE
            /\ frag[p].color.g >= 0 /\ frag[p].color.g <= ONE
            /\ frag[p].color.b >= 0 /\ frag[p].color.b <= ONE

\* a saturated pixel whose three channels all moved under full suppression
C13_Witness ==
    /\ drawn /\ ui.spillSuppression = 100 * ONE
    /\ \E p \in Pixels :
           /\ video.px[p] \in {Red, RGB(0, ONE, 0), RGB(0, 0, ONE)}
           /\ frag[p].color.r # video.px[p].r
           /\ frag[p].color.g # video.px[p].g
           /\ frag[p].color.b # video.px[p].b

----------------------------------------------------------------------------
(* The contrast stage over every mid point (SpecContrast)                  *)

MidPoints == {0, 10 * ONE, 25 * ONE, 50 * ONE, 75 * ONE, 90 * ONE, 100 * ONE}

\* the pedestal of a key-coloured pixel is its alpha before the contrast
\* stage, so the pedestals put that alpha on, below and above every pivot
ContrastSweep ==
    {[Defaults EXCEPT !.contrast = c, !.midPoint = mp, !.pedestal = pd] :
        c \in Contrasts \cup {500}, mp \in MidPoints, pd \in MidPoints}

InitContrast ==
    /\ page = "phase6"
    /\ nanClamp \in NanClampOutcomes
    /\ ui \in ContrastSweep
    /\ \E c \in {StdGreen, EdgeMix, Red} : video = OnePixel(c)
    /\ Idle

SpecContrast == InitContrast /\ [][NextKey]_vars

\* alpha of pixel p before the contrast stage
matte(p) == matteAlpha(keyDist(video.px[p], ui), luma(video.px[p]), ui)

pivotOf(u) == FMul(u.midPoint, 10)

\* C14: for every contrast > 0 and every midPoint in [0,100] the contrast
\* stage maps alpha = midPoint / 100 to midPoint / 100.
C14_PivotFixedPoint ==
    drawn =>
        \A p \in Pixels :
            (ui.contrast > 0 /\ matte(p) = pivotOf(ui)) => frag[p].keyed = pivotOf(ui)

\* C15: no division of the pipeline has a zero divisor: t of the contrast
\* stage (pivot or 1 - pivot), the weight sum of soften for every enabled
\* soften, and delta and Cmax in rgb2hsv of the pixel and of the key colour.
C15_NoZeroDivisor ==
    drawn =>
        /\ \A p \in Pixels :
               /\ ui.contrast > ONE => contrastDivisor(matte(p), ui) # 0
               /\ 0 \notin hsvDivisors(video.px[p])
        /\ 0 \notin hsvDivisors(ui.keyColor)
        /\ \A so \in {100, 5 * ONE, 20 * ONE} : weightSum(InRadius(4, FMul(so, 200))) # 0

AlphaStep == 25

AlphaPoints == 40

\* alphas of [0,1] on a grid, and either side of the pivot of u
AlphaGrid(u) ==
    {a \in {i * AlphaStep : i \in 0 .. AlphaPoints} \cup
           {pivotOf(u) - 1, pivotOf(u), pivotOf(u) + 1} : a >= 0 /\ a <= ONE}

\* C16: for midPoint strictly between 0 and 100 the contrast stage never
\* decreases as its input alpha grows over [0,1], across the pivot included,
\* and for contrast <= 1 it is the identity.
C16_ContrastMonotone ==
    (drawn /\ ui.midPoint > 0 /\ ui.midPoint < 100 * ONE) =>
        \A a \in AlphaGrid(ui) : \A b \in AlphaGrid(ui) :
            /\ a <= b => contrastCurve(a, ui) <= contrastCurve(b, ui)
            /\ ui.contrast <= ONE => contrastCurve(a, ui) = a

\* a drawn pixel under contrast 100 whose alpha the stage moved, with an
\* input below the pivot mapped below it and an input above mapped above
C16_Witness ==
    /\ drawn /\ ui.contrast = 100 * ONE /\ ui.midPoint = 50 * ONE
    /\ \E p \in Pixels : matte(p) # frag[p].keyed /\ frag[p].keyed # NaN
    /\ contrastCurve(250, ui) < 250
    /\ contrastCurve(750, ui) > 750

----------------------------------------------------------------------------
(* UI events while a phase-7 frame is on the GPU (SpecUi)                  *)

\* parameter sets that differ in what each of the four passes reads
UiParams ==
    {Defaults,
     [Defaults EXCEPT !.choke = 20 * ONE],
     [Defaults EXCEPT !.soften = 5 * ONE, !.outputMode = 1],
     [Defaults EXCEPT !.keyColor = RedSubject, !.spillSuppression = 100 * ONE]}

\* green screens with a subject pixel in the top row, the bottom row, or an edge pixel
UiFrames ==
    {Frame(Width, Height, [p \in Pos(Width, Height) |-> IF p = q THEN spot ELSE StdGreen]) :
        q \in {<<1, 1>>, <<Width, Height>>}, spot \in {RedSubject, EdgeMix}}

\* a slider, the colour picker, an output-mode button or a preset assigns the
\* page's parameters; the event loop runs it whenever render() is not running
SetParam ==
    /\ page = "phase7"
    /\ \E u \in UiParams : u # ui /\ ui' = u
    /\ UNCHANGED <<page, nanClamp, video, canvas, frag, videoTexture,
                   intermediateTexture1, intermediateTexture2, uniforms, queue, encoded, pageVars>>

InitUi ==
    /\ page = "phase7"
    /\ nanClamp \in NanClampOutcomes
    /\ ui \in UiParams
    /\ video \in UiFrames
    /\ Idle

NextUi == SetParam \/ Render7 \/ GpuCopy \/ GpuWriteBuffer \/ GpuPass

SpecUi == InitUi /\ [][NextUi]_vars

\* the passes of the submitted frame the GPU has not executed yet
passesLeft == Len(queue)

\* the GPU is past the uniform writes of a submitted frame
inFrame == page = "phase7" /\ encoded # <<>> /\ passesLeft < Len(encoded)

\* C17: every pass of a frame reads the parameters of one snapshot: from the
\* first pass of a frame on, the uniform buffers hold updateUniforms() of a
\* single parameter set, and the texture each executed pass wrote is that
\* pass over its source under these buffers, whatever the page's parameters
\* have become in the meantime.
C17_SingleSnapshot ==
    inFrame =>
        /\ \E u \in UiParams : uniforms = uniformData(video.w, video.h, u)
        /\ passesLeft = 3 =>
               intermediateTexture1 = runPass("chromakey", videoTexture, uniforms)
        /\ passesLeft = 2 =>
               intermediateTexture2 = runPass("choke", intermediateTexture1, uniforms)
        /\ passesLeft <= 1 =>
               intermediateTexture1 = runPass("soften", intermediateTexture2, uniforms)
        /\ passesLeft = 0 =>
               canvas = runPass("output", intermediateTexture1, uniforms)

\* the chromakey pass of a frame has run, the choke pass has not, and the
\* page's parameters are no longer those of the frame's uniform buffers: the
\* choke pass would differ under the page's parameters
C17_Witness ==
    /\ inFrame /\ passesLeft = 3
    /\ uniformData(video.w, video.h, ui) # uniforms
    /\ runPass("choke", intermediateTexture1, uniformData(video.w, video.h, ui))
           # runPass("choke", intermediateTexture1, uniforms)

----------------------------------------------------------------------------
(* The colour-space conversions over a grid of colours (SpecHsv)           *)

HsvStep == 100

HsvPoints == 10

\* channel values on a grid, and next to 0 and 1
HsvLevels ==
    {a \in {i * HsvStep : i \in 0 .. HsvPoints} \cup {1, ONE - 1, ONE} : a <= ONE}

HsvColours == {RGB(r, g, b) : r \in HsvLevels, g \in HsvLevels, b \in HsvLevels} \cup Palette

\* a colour, its rgb2hsv and the hsv2rgb of that
converted(c, hsv) == [rgb |-> c, hsv |-> hsv, back |-> hsv2rgb(hsv)]

\* rgb2hsv, then hsv2rgb, of every pixel of the frame
Convert ==
    /\ video.w > 0 /\ frag = <<>>
    /\ frag' = [p \in Pos(video.w, video.h) |-> converted(video.px[p], rgb2hsv(video.px[p]))]
    /\ UNCHANGED <<page, ui, nanClamp, video, canvas, videoTexture, intermediateTexture1,
                   intermediateTexture2, uniforms, queue, encoded, pageVars>>

InitHsv ==
    /\ page = "phase7"
    /\ nanClamp \in NanClampOutcomes
    /\ ui = Defaults
    /\ \E c \in HsvColours : video = OnePixel(c)
    /\ Idle

NextHsv == Convert

SpecHsv == InitHsv /\ [][NextHsv]_vars

achromatic(c) == c.r = c.g /\ c.g = c.b

RoundTripTol == 8

\* rgb2hsv(c) is computed without rounding: every quotient is a whole number
\* of thousandths
hsvExact(c) ==
    LET Cmax  == Max2(c.r, Max2(c.g, c.b))
        delta == Cmax - Min2(c.r, Min2(c.g, c.b))
        num   == IF c.r = Cmax THEN c.g - c.b
                 ELSE IF c.g = Cmax THEN c.b - c.r ELSE c.r - c.g
        turn  == IF c.r = Cmax THEN 0 ELSE IF c.g = Cmax THEN 2 * ONE ELSE 4 * ONE
    IN  /\ delta > 0
        /\ (delta * ONE) % Cmax = 0
        /\ (num * ONE) % delta = 0
        /\ (turn + FDiv(num, delta)) % 6 = 0

near(a, b) == Abs(a - b) <= RoundTripTol

----------------------------------------------------------------------------
(* The transparency slider (SpecKey)                                       *)

\* alpha of pixel p with the transparency slider at t, everything else as drawn
keyedAt(p, t) == chromaKey(video.px[p], luma(video.px[p]), [ui EXCEPT !.transparency = t])

\* C20: raising the transparency slider never raises the alpha of a pixel:
\* for every slider value t at or above the drawn one, the alpha at t is at
\* most the drawn alpha.
C20_TransparencyLowersAlpha ==
    drawn =>
        \A p \in Pixels : \A t \in Slider5 :
            (t >= ui.transparency /\ frag[p].keyed # NaN /\ keyedAt(p, t) # NaN) =>
                keyedAt(p, t) <= frag[p].keyed

----------------------------------------------------------------------------
(* The tolerance slider (SpecKey)                                          *)

\* alpha of pixel p with the tolerance slider at tol, everything else as drawn
keyedAtTolerance(p, tol) ==
    chromaKey(video.px[p], luma(video.px[p]), [ui EXCEPT !.tolerance = tol])

\* C21: raising the tolerance slider never raises the alpha of a pixel: for
\* every slider value tol at or above the drawn one, the alpha at tol is at
\* most the drawn alpha.
C21_ToleranceLowersAlpha ==
    drawn =>
        \A p \in Pixels : \A tol \in Slider5 :
            (tol >= ui.tolerance /\ frag[p].keyed # NaN /\ keyedAtTolerance(p, tol) # NaN) =>
                keyedAtTolerance(p, tol) <= frag[p].keyed

----------------------------------------------------------------------------
(* The page component: startup, parameters, playback, teardown             *)

MaxTimers == 2

MaxTime == 2

MaxUploads == 2

\* hexToRgb: "#rrggbb" to channels in [0,1], anything else to black
hexToRgb(hex) ==
    IF Len(hex) = 3
    THEN RGB(fromUnorm8(hex[1]), fromUnorm8(hex[2]), fromUnorm8(hex[3]))
    ELSE RGB(0, 0, 0)

\* $effect: keyColor is hexToRgb of a non-empty keyColorHex
hexEffect(hex, u) == IF hex # <<>> THEN [u EXCEPT !.keyColor = hexToRgb(hex)] ELSE u

\* the mark-as-custom $effect of phase 5 runs again: currentPreset changed, or
\* it read transparency, tolerance and gl on its last run and one of them changed
customReruns(preset, preset2, u, u2, g, g2) ==
    \/ preset2 # preset
    \/ /\ preset # "custom"
       /\ u2.transparency # u.transparency \/ u2.tolerance # u.tolerance \/ g2 # g

\* the timers the mark-as-custom $effect starts after a handler: one if it runs
\* again with a preset other than "custom" and gl set
customTimer(pg, preset, preset2, u, u2, g, g2) ==
    IF pg = "phase5" /\ customReruns(preset, preset2, u, u2, g, g2)
           /\ preset2 # "custom" /\ g2
    THEN 1 ELSE 0

\* the re-render $effect after a handler that assigned a parameter: phase 5
\* requests a redraw if the video is paused
redrawEffect(pg, changed, should) ==
    IF pg = "phase5" /\ changed /\ canvasBound /\ player.paused THEN TRUE ELSE should

\* applyPreset: the sliders of a preset
presetValues(preset, u) ==
    IF preset = "default"
    THEN [u EXCEPT !.transparency = 50 * ONE, !.tolerance = 50 * ONE,
                   !.highlight = 50 * ONE, !.shadow = 50 * ONE, !.pedestal = 0,
                   !.spillSuppression = 0, !.contrast = 0, !.midPoint = 50 * ONE,
                   !.choke = 0, !.soften = 0]
    ELSE IF preset = "aggressive"
    THEN [u EXCEPT !.transparency = 70 * ONE, !.tolerance = 60 * ONE,
                   !.highlight = 60 * ONE, !.shadow = 60 * ONE, !.pedestal = 5 * ONE,
                   !.spillSuppression = 80 * ONE, !.contrast = 50 * ONE,
                   !.midPoint = 50 * ONE, !.choke = 2 * ONE, !.soften = 3 * ONE]
    ELSE u

\* the component is mounted: the effects run once (keyColor from keyColorHex),
\* then onMount: phase 5 sets gl, which runs the mark-as-custom effect again,
\* and calls render(), which finds no video data and requests a frame;
\* phase 6 and 7 start initWebGPU()
Mount ==
    /\ lifecycle = "created"
    /\ lifecycle' = "mounted"
    /\ ui' = hexEffect(keyColorHex, ui)
    /\ IF page = "phase5"
       THEN /\ gl' = TRUE
            /\ timers' = timers + customTimer(page, currentPreset, currentPreset, ui, ui', gl, gl')
            /\ rafPending' = TRUE
            /\ webgpu' = webgpu
       ELSE /\ webgpu' = "requestAdapter"
            /\ UNCHANGED <<gl, timers, rafPending>>
    /\ shouldRender' = redrawEffect(page, TRUE, shouldRender)
    /\ UNCHANGED <<page, nanClamp, video, canvas, frag, uniforms, gpuVars, keyColorHex,
                   currentPreset, canvasBound, player, lastRenderedTime, videoSrc,
                   objectUrls>>

\* navigator.gpu.requestAdapter() settles: with an adapter, requestDevice()
\* starts; without one initWebGPU() returns false
AdapterResolves ==
    /\ webgpu = "requestAdapter"
    /\ webgpu' \in {"requestDevice", "failed"}
    /\ UNCHANGED <<page, ui, nanClamp, video, canvas, frag, uniforms, gpuVars, lifecycle,
                   keyColorHex, currentPreset, timers, gl, canvasBound, player, rafPending,
                   lastRenderedTime, shouldRender, videoSrc, objectUrls>>

\* mutant: the rest of initWebGPU() does not need the canvas
initEndsUnbound == "ready"

\* how initWebGPU() ends once it has the device: it returns true, or
\* canvas.getContext throws because the canvas binding is gone
initEnds == IF canvasBound THEN "ready" ELSE "threw"

\* adapter.requestDevice() settles: the rest of initWebGPU() runs and, if it
\* returns true, onMount calls render(), which requests the first frame
DeviceResolves ==
    /\ webgpu = "requestDevice"
    /\ webgpu' = initEnds
    /\ rafPending' = (webgpu' = "ready")
    /\ UNCHANGED <<page, ui, nanClamp, video, canvas, frag, uniforms, gpuVars, lifecycle,
                   keyColorHex, currentPreset, timers, gl, canvasBound, player,
                   lastRenderedTime, shouldRender, videoSrc, objectUrls>>

\* the 100 ms timer of the mark-as-custom effect fires
TimerFires ==
    /\ timers > 0
    /\ timers' = timers - 1
    /\ currentPreset' = "custom"
    /\ UNCHANGED <<page, ui, nanClamp, video, canvas, frag, uniforms, gpuVars, lifecycle,
                   keyColorHex, gl, webgpu, canvasBound, player, rafPending,
                   lastRenderedTime, shouldRender, videoSrc, objectUrls>>

\* mutant: the previous object URL is kept
revokedNone(urls, src) == urls

\* URL.revokeObjectURL(videoSrc) if videoSrc holds an object URL
revoked(urls, src) == urls \ {src}

\* handleFileUpload with a file: revoke the URL in videoSrc, create one for the
\* file, and load it: the video element is paused at its start without data
HandleFileUpload ==
    /\ lifecycle = "mounted"
    /\ videoSrc < MaxUploads
    /\ videoSrc' = videoSrc + 1
    /\ objectUrls' = revoked(objectUrls, videoSrc) \cup {videoSrc'}
    /\ player' = [loaded |-> FALSE, paused |-> TRUE, currentTime |-> 0]
    /\ UNCHANGED <<page, ui, nanClamp, video, canvas, frag, uniforms, gpuVars, lifecycle,
                   keyColorHex, currentPreset, timers, gl, webgpu, canvasBound,
                   rafPending, lastRenderedTime, shouldRender>>

\* the video element has decoded the frame at its position
LoadedData ==
    /\ canvasBound /\ videoSrc # 0 /\ ~player.loaded
    /\ player' = [player EXCEPT !.loaded = TRUE]
    /\ UNCHANGED <<page, ui, nanClamp, video, canvas, frag, uniforms, gpuVars, lifecycle,
                   keyColorHex, currentPreset, timers, gl, webgpu, canvasBound,
                   rafPending, lastRenderedTime, shouldRender, videoSrc, objectUrls>>

\* togglePlayPause: play a paused video (phase 5 also requests a redraw), pause
\* a playing one
TogglePlayPause ==
    /\ lifecycle = "mounted" /\ canvasBound /\ videoSrc # 0
    /\ player' = [player EXCEPT !.paused = ~player.paused]
    /\ shouldRender' = IF page = "phase5" /\ player.paused THEN TRUE ELSE shouldRender
    /\ UNCHANGED <<page, ui, nanClamp, video, canvas, frag, uniforms, gpuVars, lifecycle,
                   keyColorHex, currentPreset, timers, gl, webgpu, canvasBound,
                   rafPending, lastRenderedTime, videoSrc, objectUrls>>

\* the playback position of a playing video moves on
TimeAdvances ==
    /\ player.loaded /\ ~player.paused
    /\ player.currentTime < MaxTime
    /\ player' = [player EXCEPT !.currentTime = player.currentTime + 1]
    /\ UNCHANGED <<page, ui, nanClamp, video, canvas, frag, uniforms, gpuVars, lifecycle,
                   keyColorHex, currentPreset, timers, gl, webgpu, canvasBound,
                   rafPending, lastRenderedTime, shouldRender, videoSrc, objectUrls>>

\* handleSeek: a click on the timeline sets the playback position
HandleSeek ==
    /\ lifecycle = "mounted" /\ canvasBound /\ player.loaded
    /\ \E t \in 0 .. MaxTime :
           t # player.currentTime /\ player' = [player EXCEPT !.currentTime = t]
    /\ UNCHANGED <<page, ui, nanClamp, video, canvas, frag, uniforms, gpuVars, lifecycle,
                   keyColorHex, currentPreset, timers, gl, webgpu, canvasBound,
                   rafPending, lastRenderedTime, shouldRender, videoSrc, objectUrls>>

\* what a slider or an output-mode button can set a parameter to
SliderMoves(u) ==
    ({[u EXCEPT !.transparency = t] : t \in {50 * ONE, 70 * ONE}}
        \cup {[u EXCEPT !.spillSuppression = sp] : sp \in {0, 80 * ONE}}
        \cup {[u EXCEPT !.outputMode = m] : m \in {0, 1}}) \ {u}

\* a slider (bind:value) or an output-mode button assigns one parameter; the
\* effects that read it run
MoveSlider ==
    /\ lifecycle = "mounted"
    /\ \E u \in SliderMoves(ui) :
           /\ ui' = u
           /\ timers' = timers + customTimer(page, currentPreset, currentPreset, ui, u, gl, gl)
    /\ timers' <= MaxTimers
    /\ shouldRender' = redrawEffect(page, TRUE, shouldRender)
    /\ UNCHANGED <<page, nanClamp, video, canvas, frag, uniforms, gpuVars, lifecycle,
                   keyColorHex, currentPreset, gl, webgpu, canvasBound, player,
                   rafPending, lastRenderedTime, videoSrc, objectUrls>>

\* a preset button: applyPreset(preset)
ApplyPreset ==
    /\ lifecycle = "mounted"
    /\ \E preset \in {"default", "aggressive"} :
           /\ currentPreset' = preset
           /\ ui' = presetValues(preset, ui)
    /\ timers' = timers + customTimer(page, currentPreset, currentPreset', ui, ui', gl, gl)
    /\ timers' <= MaxTimers
    /\ shouldRender' = redrawEffect(page, ui' # ui, shouldRender)
    /\ UNCHANGED <<page, nanClamp, video, canvas, frag, uniforms, gpuVars, lifecycle,
                   keyColorHex, gl, webgpu, canvasBound, player, rafPending,
                   lastRenderedTime, videoSrc, objectUrls>>

\* the colours the colour input is set to
PickableHex == {DefaultHex, <<255, 0, 0>>}

\* the colour input: keyColorHex is the picked colour, the preset "custom", and
\* the effect sets keyColor
PickColour ==
    /\ lifecycle = "mounted"
    /\ \E hex \in PickableHex : hex # keyColorHex /\ keyColorHex' = hex
    /\ currentPreset' = "custom"
    /\ ui' = hexEffect(keyColorHex', ui)
    /\ shouldRender' = redrawEffect(page, TRUE, shouldRender)
    /\ UNCHANGED <<page, nanClamp, video, canvas, frag, uniforms, gpuVars, lifecycle,
                   timers, gl, webgpu, canvasBound, player, rafPending,
                   lastRenderedTime, videoSrc, objectUrls>>

\* resetToDefaults: keyColor = (0.157, 0.576, 0.129), then applyPreset("default");
\* keyColorHex is not assigned
ResetToDefaults ==
    /\ lifecycle = "mounted"
    /\ currentPreset' = "default"
    /\ ui' = presetValues("default", [ui EXCEPT !.keyColor = StdGreen])
    /\ timers' = timers + customTimer(page, currentPreset, currentPreset', ui, ui', gl, gl)
    /\ timers' <= MaxTimers
    /\ shouldRender' = redrawEffect(page, TRUE, shouldRender)
    /\ UNCHANGED <<page, nanClamp, video, canvas, frag, uniforms, gpuVars, lifecycle,
                   keyColorHex, gl, webgpu, canvasBound, player, rafPending,
                   lastRenderedTime, videoSrc, objectUrls>>

\* the component is destroyed: onDestroy cancels the requested frame and
\* revokes the URL in videoSrc; the teardown clears the element bindings
Destroy ==
    /\ lifecycle = "mounted"
    /\ lifecycle' = "destroyed"
    /\ rafPending' = FALSE
    /\ objectUrls' = revoked(objectUrls, videoSrc)
    /\ canvasBound' = FALSE
    /\ UNCHANGED <<page, ui, nanClamp, video, canvas, frag, uniforms, gpuVars,
                   keyColorHex, currentPreset, timers, gl, webgpu, player,
                   lastRenderedTime, shouldRender, videoSrc>>

\* the state after the component's script has run
Created ==
    /\ lifecycle = "created"
    /\ ui = Defaults
    /\ keyColorHex = DefaultHex
    /\ currentPreset = "default"
    /\ timers = 0
    /\ gl = FALSE
    /\ webgpu = "idle"
    /\ canvasBound = TRUE
    /\ player = [loaded |-> FALSE, paused |-> TRUE, currentTime |-> 0]
    /\ rafPending = FALSE
    /\ lastRenderedTime = 0 - 1
    /\ shouldRender = TRUE
    /\ videoSrc = 0
    /\ objectUrls = {}
    /\ canvas = NoFrame
    /\ frag = <<>>
    /\ videoTexture = NoFrame
    /\ intermediateTexture1 = NoFrame
    /\ intermediateTexture2 = NoFrame
    /\ uniforms = <<>>
    /\ queue = <<>>
    /\ encoded = <<>>

----------------------------------------------------------------------------
(* Startup without any adjustment of the keying controls (SpecStartup)     *)

StartupFrames == {OnePixel(StdGreen), OnePixel(RGB(ONE, 0, 0))}

InitStartup ==
    /\ page \in {"phase5", "phase6", "phase7"}
    /\ nanClamp \in NanClampOutcomes
    /\ video \in StartupFrames
    /\ Created

\* the page runs with a video uploaded and played, the keying controls untouched
NextStartup ==
    \/ Mount \/ AdapterResolves \/ DeviceResolves \/ TimerFires
    \/ HandleFileUpload \/ LoadedData \/ TogglePlayPause \/ TimeAdvances
    \/ Draw5 \/ Draw6 \/ Render7 \/ GpuCopy \/ GpuWriteBuffer \/ GpuPass

SpecStartup == InitStartup /\ [][NextStartup]_vars

\* the key colour in the uniforms the shader reads
keyColorInUse ==
    IF page = "phase7" THEN uniforms.chromakey.keyColor ELSE uniforms.keyColor

\* C22: with the keying controls untouched, the key colour written to the
\* shader uniforms is the documented default (0.157, 0.576, 0.129), from the
\* first rendered frame on
C22_DefaultKeyAtFirstFrame ==
    uniforms # <<>> => keyColorInUse = StdGreen

\* C23: with no adjustment of a parameter or of the key colour, currentPreset
\* is "default" at any time after initialisation
C23_PresetOnlyByAdjustment ==
    currentPreset = "default"

----------------------------------------------------------------------------
(* The phase-5 render loop (SpecLoop5, FairLoop5)                          *)

InitLoop5 ==
    /\ page = "phase5"
    /\ nanClamp \in NanClampOutcomes
    /\ video = OnePixel(StdGreen)
    /\ Created

NextLoop5 ==
    \/ Mount \/ TimerFires \/ HandleFileUpload \/ LoadedData \/ TogglePlayPause
    \/ TimeAdvances \/ HandleSeek \/ MoveSlider \/ Draw5

SpecLoop5 == InitLoop5 /\ [][NextLoop5]_vars

\* what a draw of phase 5 changes besides the picture, which follows from the
\* uniforms and the frame
loopState == <<uniforms, lastRenderedTime, shouldRender>>

\* animation frames keep firing: render() runs again and again, so a draw that
\* stays due is made
FairLoop5 == SpecLoop5 /\ WF_loopState(Draw5)

\* the draw render() makes: the uniforms, the canvas and lastRenderedTime
drawState == <<uniforms, frag, canvas, lastRenderedTime>>

\* C24: in phase 5 nothing is drawn while the video is paused, its time is the
\* one last rendered and shouldRender is false; a draw is made only if the
\* video plays, its time changed or shouldRender is set
C24_NoDrawUnlessNeeded ==
    [][(page = "phase5" /\ player.paused /\ player.currentTime = lastRenderedTime
            /\ ~shouldRender) => drawState' = drawState]_vars

\* a paused video whose frame is drawn, with parameters newer than the uniforms:
\* a draw would show, and none is made
C24_Witness ==
    /\ page = "phase5" /\ rafPending /\ gl /\ player.loaded
    /\ player.paused /\ player.currentTime = lastRenderedTime /\ ~shouldRender
    /\ uniforms # <<>> /\ uniforms # ui

\* C25: in phase 5 every change of a keying parameter, of the key colour or of
\* the output mode is eventually followed by a draw with the new values, as
\* long as the video has frame data and animation frames keep firing
C25_ChangeEventuallyDrawn ==
    (player.loaded /\ uniforms # ui) ~> (uniforms = ui \/ ~player.loaded)

----------------------------------------------------------------------------
(* The WebGPU render loop of phase 6 and 7 (SpecLoopGpu, FairLoopGpu)      *)

InitLoopGpu ==
    /\ page \in {"phase6", "phase7"}
    /\ nanClamp \in NanClampOutcomes
    /\ video = OnePixel(StdGreen)
    /\ Created

NextLoopGpu ==
    \/ Mount \/ AdapterResolves \/ DeviceResolves \/ HandleFileUpload \/ LoadedData
    \/ TogglePlayPause \/ TimeAdvances \/ HandleSeek \/ MoveSlider
    \/ Draw6 \/ Render7 \/ GpuCopy \/ GpuWriteBuffer \/ GpuPass

SpecLoopGpu == InitLoopGpu /\ [][NextLoopGpu]_vars

\* what a render() call and the GPU's work on it change besides the textures
gpuLoopState == <<uniforms, queue>>

\* animation frames keep firing, far more often than the user acts: a draw
\* that is due again and again is made; the GPU executes what is submitted
FairLoopGpu ==
    /\ SpecLoopGpu
    /\ SF_gpuLoopState(Draw6)
    /\ SF_gpuLoopState(Render7)
    /\ WF_gpuLoopState(GpuCopy)
    /\ WF_gpuLoopState(GpuWriteBuffer)
    /\ WF_gpuLoopState(GpuPass)

\* the uniforms the shaders read hold the page's current parameters
uniformsCurrent ==
    uniforms = IF page = "phase7" THEN uniformData(video.w, video.h, ui) ELSE ui

\* C26: in phase 6 and 7, when a parameter has changed while a loaded video is
\* paused, a frame is rendered with the new values on a following animation
\* frame, at every paused position, currentTime = 0 included
C26_PausedChangeRedrawn ==
    (webgpu = "ready" /\ player.loaded /\ player.paused /\ uniforms # <<>> /\ ~uniformsCurrent)
        ~> (uniformsCurrent \/ ~player.loaded \/ ~player.paused)

----------------------------------------------------------------------------
(* Teardown of the page (SpecTeardown)                                     *)

InitTeardown ==
    /\ page \in {"phase5", "phase6", "phase7"}
    /\ nanClamp \in NanClampOutcomes
    /\ video = OnePixel(StdGreen)
    /\ Created

\* the page is used and destroyed at any moment, also while initWebGPU() waits
NextTeardown ==
    \/ Mount \/ AdapterResolves \/ DeviceResolves \/ TimerFires
    \/ HandleFileUpload \/ LoadedData \/ TogglePlayPause \/ TimeAdvances
    \/ Draw5 \/ Draw6 \/ Render7 \/ GpuCopy \/ GpuWriteBuffer \/ GpuPass
    \/ Destroy

SpecTeardown == InitTeardown /\ [][NextTeardown]_vars

C28_ObjectUrlsRevoked ==
    /\ objectUrls \subseteq {videoSrc}
    /\ lifecycle = "destroyed" => objectUrls = {}

\* the page is destroyed after a second upload
C28_Witness ==
    lifecycle = "destroyed" /\ videoSrc > 1 /\ objectUrls = {}

----------------------------------------------------------------------------
(* Presets, colour picking and reset (SpecPreset)                          *)

InitPreset ==
    /\ page \in {"phase5", "phase6", "phase7"}
    /\ nanClamp \in NanClampOutcomes
    /\ video = OnePixel(StdGreen)
    /\ Created

\* the keying controls are used on a mounted page; what is drawn is left out
NextPreset ==
    \/ Mount \/ TimerFires
    \/ MoveSlider \/ ApplyPreset \/ PickColour \/ ResetToDefaults

SpecPreset == InitPreset /\ [][NextPreset]_vars

\* the parameters of the first frame rendered after startup: the declared
\* values, with the key colour the effect derives from the declared keyColorHex
startupParams == hexEffect(DefaultHex, Defaults)

\* C29: after resetToDefaults() every keying parameter has the value it had at
\* the first rendered frame after startup, and keyColorHex shows the key
\* colour in use
C29_ResetRestoresStartup ==
    [][ResetToDefaults =>
           /\ ui' = [startupParams EXCEPT !.outputMode = ui'.outputMode]
           /\ hexToRgb(keyColorHex') = ui'.keyColor]_vars

----------------------------------------------------------------------------
(* Choke and soften with a radius below one pixel (SpecCentre)             *)

\* choke values below and at the ends of the range whose radius is below 1,
\* the aggressive preset's 2, and two values with a larger radius
CentreChokes ==
    {0 - 7 * ONE, 0 - 6666, 0 - 2 * ONE, 100, 2 * ONE, 6666, 7 * ONE}

\* off, the aggressive preset's 3 and the largest soften with a radius below 1
CentreSoftens == {0, 3 * ONE, 4999}

CentreSweep ==
    {[Defaults EXCEPT !.choke = ch, !.soften = so] :
        ch \in CentreChokes, so \in CentreSoftens}

InitCentre ==
    /\ page = "phase7"
    /\ nanClamp \in NanClampOutcomes
    /\ ui \in CentreSweep
    /\ video \in Frames
    /\ Idle

NextCentre == Render7 \/ GpuCopy \/ GpuWriteBuffer \/ GpuPass

SpecCentre == InitCentre /\ [][NextCentre]_vars

\* the kernel radius is below one pixel
chokeBelowOne == Abs(uniforms.choke.choke) >= 100 /\ 3 * Abs(uniforms.choke.choke) < 20 * ONE

softenBelowOne == uniforms.soften.soften >= 100 /\ uniforms.soften.soften < 5 * ONE

\* C30: in the phase-7 choke and soften passes the centre texel is the only
\* sample while the radius is below 1: for 0.1 <= |choke| < 1/0.15 the choke
\* pass and for 0.1 <= soften < 5 the soften pass write the input alpha of
\* every pixel unchanged; for any choke > 0 the alpha written never exceeds the
\* pixel's input alpha, for choke < 0 it never falls below it
C30_CentreOnlyBelowOne ==
    /\ (afterChoke /\ chokeBelowOne) =>
           \A p \in Pos(video.w, video.h) :
               intermediateTexture2.px[p].a = intermediateTexture1.px[flipY(p, video.h)].a
    /\ (frameDone /\ softenBelowOne) =>
           \A p \in Pos(video.w, video.h) :
               intermediateTexture1.px[p].a = intermediateTexture2.px[flipY(p, video.h)].a
    /\ (afterChoke /\ uniforms.choke.choke > 0) =>
           \A p \in Pos(video.w, video.h) :
               intermediateTexture2.px[p].a <= intermediateTexture1.px[flipY(p, video.h)].a
    /\ (afterChoke /\ uniforms.choke.choke < 0) =>
           \A p \in Pos(video.w, video.h) :
               intermediateTexture2.px[p].a >= intermediateTexture1.px[flipY(p, video.h)].a

\* a finished frame with the aggressive preset's choke = 2 and soften = 3 whose
\* matte has a keyed and an opaque pixel next to each other
C30_Witness ==
    /\ frameDone /\ uniforms.choke.choke = 2 * ONE /\ uniforms.soften.soften = 3 * ONE
    /\ \E p \in Pos(video.w, video.h) :
           /\ p[1] < video.w
           /\ intermediateTexture1.px[p].a # intermediateTexture1.px[<<p[1] + 1, p[2]>>].a


====
